---- MODULE Spec2Model ----
(***************************************************************************)
(* Model of plugins/modules/nim_resource.py: the Ansible module that       *)
(* shows, defines and removes NIM resource objects by running lsnim / nim  *)
(* and interpreting their exit code, stdout and stderr.                    *)
(*                                                                         *)
(* Text is modelled at two levels.  The listing output handed to build_dic *)
(* is a sequence of one-character strings, so that splitlines, split('='), *)
(* strip and slicing are computed character by character.  A command line  *)
(* is the sequence of its space-separated pieces (the pieces of            *)
(* str.split(' ')), so that string concatenation, empty pieces from double *)
(* spaces and the final token are all visible.  stderr is a sequence of    *)
(* words; re.search of a literal pattern is the search for that word.      *)
(***************************************************************************)
EXTENDS Naturals, Sequences, FiniteSets, TLC

VARIABLES pc, params, cmd, results, ret, executed, output, server, journal

vars == <<pc, params, cmd, results, ret, executed, output, server, journal>>

(***************************************************************************)
(* Bounds of the model.                                                    *)
(***************************************************************************)
MaxRc == 2          \* exit codes are drawn from 0..MaxRc
MaxErrWords == 2    \* stderr holds at most this many diagnostic words
MaxLines == 4       \* listing output holds at most this many lines
MaxCalls == 2       \* commands the simulated NIM server accepts in a run

(***************************************************************************)
(* Python values.                                                          *)
(***************************************************************************)
None == "<None>"                     \* the None object (never a real text)

Truthy(x) == x /= None /\ x /= ""    \* truth value of an optional str

Format(x) == IF x = None THEN "None" ELSE x     \* '{0}'.format(x)

EmptyDict == <<>>                    \* {}

Put(d, k, v) == (k :> v) @@ d        \* d[k] = v

(***************************************************************************)
(* Character-level string operations used by build_dic.                    *)
(***************************************************************************)
NL == "\n"

IsSpace(c) == c = " " \/ c = NL

RECURSIVE lstrip(_)
lstrip(s) == IF s /= <<>> /\ IsSpace(Head(s)) THEN lstrip(Tail(s)) ELSE s

RECURSIVE rstrip(_)
rstrip(s) ==
    IF s /= <<>> /\ IsSpace(s[Len(s)]) THEN rstrip(SubSeq(s, 1, Len(s) - 1)) ELSE s

strip(s) == lstrip(rstrip(s))        \* str.strip()

\* str.split(sep): the pieces between every occurrence of sep; acc is the
\* piece being read.
RECURSIVE SplitFrom(_, _, _)
SplitFrom(s, sep, acc) ==
    IF s = <<>> THEN <<acc>>
    ELSE IF Head(s) = sep THEN <<acc>> \o SplitFrom(Tail(s), sep, <<>>)
    ELSE SplitFrom(Tail(s), sep, Append(acc, Head(s)))

split(s, sep) == SplitFrom(s, sep, <<>>)

\* str.splitlines(): like split on the line break, but a text ending in a
\* line break has no empty last line, and the empty text has no line.
splitlines(s) ==
    IF s = <<>> THEN <<>>
    ELSE LET p == split(s, NL)
         IN  IF s[Len(s)] = NL THEN SubSeq(p, 1, Len(p) - 1) ELSE p

DropLast(s) == SubSeq(s, 1, Len(s) - 1)      \* s[:-1]

(***************************************************************************)
(* build_dic: the parser of the listing output.                            *)
(***************************************************************************)
line_key(line) == strip(split(line, "=")[1])       \* (line.split('=')[0]).strip()

line_size(line) == Len(split(line, "="))           \* len(line.split('='))

line_value(line) == strip(split(line, "=")[2])     \* (line.split('=')[1]).strip()

header_name(key) == DropLast(key)                  \* key[:-1]

\* The for loop.  info1 is ONE dict object for the whole call: info stores a
\* reference to it under every header name ("info1" below), and clear()
\* empties that same object.
RECURSIVE build_loop(_, _, _, _)
build_loop(lines, i, info, info1) ==
    IF i > Len(lines) THEN [info |-> info, info1 |-> info1]
    ELSE IF line_size(lines[i]) > 1
         THEN build_loop(lines, i + 1, info,
                         Put(info1, line_key(lines[i]), line_value(lines[i])))
         ELSE build_loop(lines, i + 1,
                         Put(info, header_name(line_key(lines[i])), "info1"),
                         EmptyDict)

\* The returned dict as its reader sees it: every entry dereferences to the
\* final content of the shared info1 object.
build_dic(stdout) ==
    LET r == build_loop(splitlines(stdout), 1, EmptyDict, EmptyDict)
    IN  [k \in DOMAIN r.info |-> r.info1]

(***************************************************************************)
(* Command lines.  A command line is the sequence of the pieces between    *)
(* its single spaces; Cat is string concatenation on that representation   *)
(* (the last piece of the left side joins the first piece of the right).   *)
(***************************************************************************)
Cat(p, q) == SubSeq(p, 1, Len(p) - 1) \o <<p[Len(p)] \o q[1]>> \o Tail(q)

RECURSIVE JoinPieces(_)
JoinPieces(p) ==
    IF Len(p) = 1 THEN p[1] ELSE p[1] \o " " \o JoinPieces(Tail(p))

\* The words run_command executes: the non-empty pieces of the line.
argv(c) == SelectSeq(c, LAMBDA w : w /= "")

\* res_show with the coarse-listing test on object_type alone
res_show_cmd_coarse_by_type(name, object_type) ==
    LET c0 == <<"/usr/sbin/lsnim", "-l">>
        c1 == IF ~Truthy(object_type)
              THEN Cat(c0, <<"", "-c", "resources">>) ELSE c0
        c2 == IF Truthy(object_type)
              THEN Cat(c1, <<"", "-t", object_type>>) ELSE c1
    IN  IF Truthy(name) THEN Cat(c2, <<"", name>>) ELSE c2

\* res_show, lines 201-214
res_show_cmd(name, object_type) ==
    LET c0 == <<"/usr/sbin/lsnim", "-l">>
        c1 == IF ~Truthy(object_type) /\ ~Truthy(name)
              THEN Cat(c0, <<"", "-c", "resources">>) ELSE c0
        c2 == IF Truthy(object_type)
              THEN Cat(c1, <<"", "-t", object_type>>) ELSE c1
    IN  IF Truthy(name) THEN Cat(c2, <<"", name>>) ELSE c2

\* res_present, lines 269-272: opts, one ' -a attr="val" ' per item, in the
\* dict's own (insertion) order
RECURSIVE present_opts(_)
present_opts(items) ==
    IF items = <<>> THEN <<"">>
    ELSE Cat(<<"", "-a", items[1][1] \o "=\"" \o items[1][2] \o "\"", "">>,
             present_opts(Tail(items)))

\* res_present, lines 258-275
res_present_cmd(name, object_type, attributes) ==
    LET c0 == <<"/usr/sbin/nim", "-a", "server=master", "-o", "define", "">>
        c1 == IF Truthy(object_type)
              THEN Cat(c0, <<"", "-t", object_type>>) ELSE c0
        c2 == IF ~attributes.is_none
              THEN Cat(c1, present_opts(attributes.items)) ELSE c1
    IN  IF Truthy(name) THEN Cat(c2, <<"", name>>) ELSE c2

\* res_absent, line 318
res_absent_cmd(name) == <<"/usr/sbin/nim", "-o", "remove", Format(name)>>

preview_msg(c) ==
    "Command '" \o JoinPieces(c) \o "' preview mode, execution skipped."

absent_preview_msg(c) ==
    "Command '" \o JoinPieces(c) \o "' in preview mode, execution skipped."

(***************************************************************************)
(* The part of each handler before run_command: the built command, the     *)
(* results after it, and whether the command is handed to run_command.     *)
(***************************************************************************)
show_call(res, p) ==
    LET c == res_show_cmd(p.name, p.object_type)
    IN  IF p.check_mode
        THEN [cmd |-> c, results |-> Put(res, "msg", preview_msg(c)), run |-> FALSE]
        ELSE [cmd |-> c, results |-> res, run |-> TRUE]

present_call(res, p) ==
    LET c == res_present_cmd(p.name, p.object_type, p.attributes)
    IN  IF p.check_mode
        THEN [cmd |-> c, results |-> Put(res, "msg", preview_msg(c)), run |-> FALSE]
        ELSE [cmd |-> c, results |-> res, run |-> TRUE]

\* res_absent without its check-mode branch
absent_call_no_preview(res, p) ==
    [cmd |-> res_absent_cmd(p.name), results |-> res, run |-> TRUE]

absent_call(res, p) ==
    LET c == res_absent_cmd(p.name)
    IN  IF p.check_mode
        THEN [cmd |-> c, results |-> Put(res, "msg", absent_preview_msg(c)),
              run |-> FALSE]
        ELSE [cmd |-> c, results |-> res, run |-> TRUE]

(***************************************************************************)
(* The part of each handler after run_command: the results, and whether    *)
(* the handler leaves through module.fail_json.                            *)
(***************************************************************************)
\* re.match in place of re.search: the pattern only at the start of stderr
re_match(pattern, stderr) == stderr /= <<>> /\ stderr[1] = pattern

\* re.search(pattern, stderr) for a literal pattern
re_search(pattern, stderr) == \E i \in 1..Len(stderr) : stderr[i] = pattern

captured(res, c, rt) ==
    Put(Put(Put(res, "stderr", rt.stderr), "stdout", rt.stdout), "cmd", c)

show_result(res, name, c, rt) ==
    LET r0 == Put(Put(captured(res, c, rt), "nim_resources", EmptyDict),
                  "nim_resource_found", "0")
    IN  IF rt.rc /= 0
        THEN IF re_search("0042-053", rt.stderr)
             THEN [results |-> Put(r0, "msg",
                       "There is no NIM object resource named " \o Format(name) \o " "),
                   fatal |-> FALSE]
             ELSE [results |-> Put(Put(r0, "msg",
                       "Error trying to display object " \o Format(name)),
                       "rc", rt.rc),
                   fatal |-> TRUE]
        ELSE [results |-> Put(Put(r0, "nim_resources", build_dic(rt.stdout)),
                              "nim_resource_found", "1"),
              fatal |-> FALSE]

\* res_present with the test of the search result inverted
present_result_inverted(res, name, c, rt) ==
    LET r0 == Put(Put(Put(res, "stderr", rt.stderr), "stdout", rt.stdout), "cmd", c)
    IN  IF rt.rc /= 0
        THEN IF (\E i \in 1..Len(rt.stderr) : rt.stderr[i] = "0042-081")
             THEN [results |-> Put(Put(r0, "rc", rt.rc), "msg",
                       "Error trying to define resource " \o Format(name) \o " "),
                   fatal |-> TRUE]
             ELSE [results |-> Put(r0, "msg", "Resource already exist"),
                   fatal |-> FALSE]
        ELSE [results |-> Put(Put(r0, "msg",
                  "Creation of resource " \o Format(name) \o " was a success"),
                  "changed", TRUE),
              fatal |-> FALSE]

present_result(res, name, c, rt) ==
    LET r0 == captured(res, c, rt)
    IN  IF rt.rc /= 0
        THEN IF ~re_search("0042-081", rt.stderr)
             THEN [results |-> Put(Put(r0, "rc", rt.rc), "msg",
                       "Error trying to define resource " \o Format(name) \o " "),
                   fatal |-> TRUE]
             ELSE [results |-> Put(r0, "msg", "Resource already exist"),
                   fatal |-> FALSE]
        ELSE [results |-> Put(Put(r0, "msg",
                  "Creation of resource " \o Format(name) \o " was a success"),
                  "changed", TRUE),
              fatal |-> FALSE]

\* res_absent that forgets results['changed'] = True
absent_result_unchanged(res, name, c, rt) ==
    LET r0 == Put(Put(Put(res, "stderr", rt.stderr), "stdout", rt.stdout), "cmd", c)
    IN  IF rt.rc /= 0
        THEN IF (\E i \in 1..Len(rt.stderr) : rt.stderr[i] = "0042-053")
             THEN [results |-> Put(r0, "msg",
                       "There is no NIM object resource named " \o Format(name) \o " "),
                   fatal |-> FALSE]
             ELSE [results |-> Put(Put(r0, "msg",
                       "Error trying to remove NIM object " \o Format(name)),
                       "rc", rt.rc),
                   fatal |-> TRUE]
        ELSE [results |-> Put(r0, "msg",
                  "Resource " \o Format(name) \o " was removed."),
              fatal |-> FALSE]

\* res_absent that searches for res_present's diagnostic, 0042-081
absent_result_wrong_code(res, name, c, rt) ==
    LET r0 == Put(Put(Put(res, "stderr", rt.stderr), "stdout", rt.stdout), "cmd", c)
    IN  IF rt.rc /= 0
        THEN IF (\E i \in 1..Len(rt.stderr) : rt.stderr[i] = "0042-081")
             THEN [results |-> Put(r0, "msg",
                       "There is no NIM object resource named " \o Format(name) \o " "),
                   fatal |-> FALSE]
             ELSE [results |-> Put(Put(r0, "msg",
                       "Error trying to remove NIM object " \o Format(name)),
                       "rc", rt.rc),
                   fatal |-> TRUE]
        ELSE [results |-> Put(Put(r0, "msg",
                  "Resource " \o Format(name) \o " was removed."),
                  "changed", TRUE),
              fatal |-> FALSE]

absent_result(res, name, c, rt) ==
    LET r0 == captured(res, c, rt)
    IN  IF rt.rc /= 0
        THEN IF re_search("0042-053", rt.stderr)
             THEN [results |-> Put(r0, "msg",
                       "There is no NIM object resource named " \o Format(name) \o " "),
                   fatal |-> FALSE]
             ELSE [results |-> Put(Put(r0, "msg",
                       "Error trying to remove NIM object " \o Format(name)),
                       "rc", rt.rc),
                   fatal |-> TRUE]
        ELSE [results |-> Put(Put(r0, "msg",
                  "Resource " \o Format(name) \o " was removed."),
                  "changed", TRUE),
              fatal |-> FALSE]

(***************************************************************************)
(* Inputs.                                                                 *)
(***************************************************************************)
Actions == {"show", "present", "absent"}        \* argument_spec choices

Names == {None, "", "r1", "r2"}

ObjectTypes == {None, "", "spot"}

AttributeChoices ==
    { [is_none |-> TRUE, items |-> <<>>],
      [is_none |-> FALSE, items |-> <<>>],
      [is_none |-> FALSE, items |-> << <<"source", "/a">>, <<"location", "/b">> >>],
      [is_none |-> FALSE, items |-> << <<"location", "/b">>, <<"source", "/a">> >>] }

Requests ==
    [action : Actions, name : Names, object_type : ObjectTypes,
     attributes : AttributeChoices, check_mode : BOOLEAN]

\* stderr texts: up to MaxErrWords diagnostic words
ErrWords == {"0042-053", "0042-081", "0042-001"}

RECURSIVE SeqsUpTo(_, _)
SeqsUpTo(S, n) ==
    IF n = 0 THEN {<<>>}
    ELSE LET shorter == SeqsUpTo(S, n - 1)
         IN  shorter \cup {Append(s, x) : s \in shorter, x \in S}

Stderrs == SeqsUpTo(ErrWords, MaxErrWords)

\* a line of text followed by its line break
Ln(chars) == Append(chars, NL)

RECURSIVE Flatten(_)
Flatten(ss) == IF ss = <<>> THEN <<>> ELSE Head(ss) \o Flatten(Tail(ss))

\* lines a listing may hold: headers, a header-like line without colon,
\* attribute lines with surrounding blanks, an empty value, a repeated key
\* and a value that holds '='
ListingLines ==
    { Ln(<<"a", ":">>), Ln(<<"b", ":">>), Ln(<<"a", "b">>),
      Ln(<<" ", "k", " ", "=", " ", "v">>), Ln(<<"k", "=", "w">>),
      Ln(<<"j", " ", "=", " ">>), Ln(<<"j", "=", "v", "=", "w">>) }

Listings == {Flatten(ls) : ls \in SeqsUpTo(ListingLines, MaxLines)}

Stdouts == {<<>>, Ln(<<"a", ":">>) \o Ln(<<" ", "k", " ", "=", " ", "v">>)}

NoParams ==
    [action |-> "show", name |-> None, object_type |-> None,
     attributes |-> [is_none |-> TRUE, items |-> <<>>], check_mode |-> FALSE]

NoRet == [rc |-> 0, stdout |-> <<>>, stderr |-> <<>>]

NoOutput == [how |-> "none", data |-> EmptyDict]

(***************************************************************************)
(* The state machine of one module run after another.                      *)
(***************************************************************************)
\* before main runs: results = None (line 184), nothing built or executed
Boot ==
    /\ pc = "idle"
    /\ params = NoParams
    /\ cmd = <<>>
    /\ results = EmptyDict
    /\ ret = NoRet
    /\ executed = <<>>
    /\ output = NoOutput
    /\ journal = <<>>

Init == Boot /\ server = {}

\* main, lines 380-401: a new run of the module with the request p
main(R) ==
    /\ pc = "idle"
    /\ Len(journal) < MaxCalls
    /\ \E p \in R :
         /\ params' = p
         /\ results' = [changed |-> FALSE, msg |-> "", stdout |-> "", stderr |-> ""]
    /\ pc' = "dispatch"
    /\ cmd' = <<>>
    /\ ret' = NoRet
    /\ executed' = <<>>
    /\ output' = NoOutput
    /\ UNCHANGED <<server, journal>>

\* a handler up to its call of module.run_command, or to its return in
\* check mode
begin(o) ==
    /\ cmd' = o.cmd
    /\ results' = o.results
    /\ IF o.run
       THEN pc' = "run" /\ executed' = Append(executed, o.cmd)
       ELSE pc' = "exit" /\ UNCHANGED executed
    /\ UNCHANGED <<params, ret, output, server, journal>>

res_show_begin ==
    pc = "dispatch" /\ params.action = "show" /\ begin(show_call(results, params))

res_present_begin ==
    pc = "dispatch" /\ params.action = "present" /\ begin(present_call(results, params))

res_absent_begin ==
    pc = "dispatch" /\ params.action = "absent" /\ begin(absent_call(results, params))

\* module.run_command as an arbitrary command: any exit code, output and
\* diagnostics
run_command ==
    /\ pc = "run"
    /\ \E rc \in 0..MaxRc, out \in Stdouts, err \in Stderrs :
         ret' = [rc |-> rc, stdout |-> out, stderr |-> err]
    /\ pc' = "returned"
    /\ UNCHANGED <<params, cmd, results, executed, output, server, journal>>

\* module.fail_json(**results)
fail_json(res) == [how |-> "fail_json", data |-> Put(res, "failed", TRUE)]

\* a handler from the return of run_command to its own return, or to
\* fail_json
finish(o) ==
    /\ results' = o.results
    /\ IF o.fatal
       THEN pc' = "failed" /\ output' = fail_json(o.results)
       ELSE pc' = "exit" /\ UNCHANGED output
    /\ UNCHANGED <<params, cmd, ret, executed, server, journal>>

res_show_end ==
    /\ pc = "returned" /\ params.action = "show"
    /\ finish(show_result(results, params.name, cmd, ret))

res_present_end ==
    /\ pc = "returned" /\ params.action = "present"
    /\ finish(present_result(results, params.name, cmd, ret))

res_absent_end ==
    /\ pc = "returned" /\ params.action = "absent"
    /\ finish(absent_result(results, params.name, cmd, ret))

\* main, line 413: module.exit_json(**results)
exit_json ==
    /\ pc = "exit"
    /\ pc' = "done"
    /\ output' = [how |-> "exit_json", data |-> results]
    /\ UNCHANGED <<params, cmd, results, ret, executed, server, journal>>

\* the process of a finished run is gone; the next run starts from a new one
\* (exit_json and fail_json both end in sys.exit)
process_exit ==
    /\ pc \in {"done", "failed"}
    /\ pc' = "idle"
    /\ params' = NoParams
    /\ cmd' = <<>>
    /\ results' = EmptyDict
    /\ ret' = NoRet
    /\ executed' = <<>>
    /\ output' = NoOutput
    /\ UNCHANGED <<server, journal>>

Next ==
    \/ main(Requests)
    \/ res_show_begin
    \/ res_present_begin
    \/ res_absent_begin
    \/ run_command
    \/ res_show_end
    \/ res_present_end
    \/ res_absent_end
    \/ exit_json
    \/ process_exit

Spec == Init /\ [][Next]_vars

(***************************************************************************)
(* The parser on its own: a show run whose lsnim succeeds with each of the *)
(* bounded listings.                                                       *)
(***************************************************************************)
ListingRequests ==
    { [action |-> "show", name |-> n, object_type |-> None,
       attributes |-> [is_none |-> TRUE, items |-> <<>>], check_mode |-> FALSE] :
      n \in {None, "r1"} }

\* module.run_command when lsnim succeeds
run_listing ==
    /\ pc = "run"
    /\ \E out \in Listings : ret' = [rc |-> 0, stdout |-> out, stderr |-> <<>>]
    /\ pc' = "returned"
    /\ UNCHANGED <<params, cmd, results, executed, output, server, journal>>

NextListing ==
    \/ main(ListingRequests)
    \/ res_show_begin
    \/ run_listing
    \/ res_show_end
    \/ exit_json
    \/ process_exit

SpecListing == Init /\ [][NextListing]_vars

(***************************************************************************)
(* A simulated NIM server behind run_command: a set of defined resources.  *)
(* Removing or listing a name that is not defined fails with 0042-053,     *)
(* defining one that is defined fails with 0042-081, a command without the *)
(* name it needs fails with another diagnostic.  The journal records every *)
(* command the server executed.                                            *)
(***************************************************************************)
ResourceNames == {"r1", "r2"}

\* the operands of a command: its words that are neither a flag nor the
\* argument of one
RECURSIVE operands(_)
operands(a) ==
    IF a = <<>> THEN <<>>
    ELSE IF Head(a) = "-l" THEN operands(Tail(a))
    ELSE IF Head(a) \in {"-a", "-o", "-t", "-c"} THEN operands(Tail(Tail(a)))
    ELSE <<Head(a)>> \o operands(Tail(a))

operation(a) ==
    IF a[1] = "/usr/sbin/lsnim" THEN "list"
    ELSE IF \E i \in 1..(Len(a) - 1) : a[i] = "-o" /\ a[i + 1] = "remove"
         THEN "remove" ELSE "define"

NameChars(n) == IF n = "r1" THEN <<"r", "1">> ELSE <<"r", "2">>

listing_record(n) ==
    Ln(NameChars(n) \o <<":">>)
    \o Ln(<<" ", " ", " ", "c", "l", "a", "s", "s", " ", "=", " ",
            "r", "e", "s", "o", "u", "r", "c", "e", "s">>)

listing_of(S) ==
    (IF "r1" \in S THEN listing_record("r1") ELSE <<>>)
    \o (IF "r2" \in S THEN listing_record("r2") ELSE <<>>)

server_reply(a, defined) ==
    LET op == operation(a)
        ns == operands(Tail(a))
        usage == [rc |-> 1, stdout |-> <<>>, stderr |-> <<"0042-001">>]
        missing == [rc |-> 1, stdout |-> <<>>, stderr |-> <<"0042-053">>]
    IN  IF op = "list"
        THEN IF ns = <<>>
             THEN [ret |-> [rc |-> 0, stdout |-> listing_of(defined), stderr |-> <<>>],
                   after |-> defined]
             ELSE IF ns[1] \in defined
             THEN [ret |-> [rc |-> 0, stdout |-> listing_of({ns[1]}), stderr |-> <<>>],
                   after |-> defined]
             ELSE [ret |-> missing, after |-> defined]
        ELSE IF ns = <<>> THEN [ret |-> usage, after |-> defined]
        ELSE IF op = "remove"
        THEN IF ns[1] \in defined
             THEN [ret |-> [rc |-> 0, stdout |-> <<>>, stderr |-> <<>>],
                   after |-> defined \ {ns[1]}]
             ELSE [ret |-> missing, after |-> defined]
        ELSE IF ns[1] \in defined
             THEN [ret |-> [rc |-> 1, stdout |-> <<>>, stderr |-> <<"0042-081">>],
                   after |-> defined]
             ELSE [ret |-> [rc |-> 0, stdout |-> <<>>, stderr |-> <<>>],
                   after |-> defined \cup {ns[1]}]

\* module.run_command against the simulated server
run_server ==
    /\ pc = "run"
    /\ LET a == argv(cmd)
           r == server_reply(a, server)
       IN  /\ ret' = r.ret
           /\ server' = r.after
           /\ journal' = Append(journal,
                  [op |-> operation(a), operand |-> operands(Tail(a)),
                   rc |-> r.ret.rc, after |-> r.after])
    /\ pc' = "returned"
    /\ UNCHANGED <<params, cmd, results, executed, output>>

ServerRequests ==
    [action : Actions, name : Names, object_type : {"spot"},
     attributes : {[is_none |-> TRUE, items |-> <<>>]}, check_mode : BOOLEAN]

InitServer == Boot /\ server \in SUBSET ResourceNames

NextServer ==
    \/ main(ServerRequests)
    \/ res_show_begin
    \/ res_present_begin
    \/ res_absent_begin
    \/ run_server
    \/ res_show_end
    \/ res_present_end
    \/ res_absent_end
    \/ exit_json
    \/ process_exit

SpecServer == InitServer /\ [][NextServer]_vars

(***************************************************************************)
(* Vocabulary of the properties.                                           *)
(***************************************************************************)
\* the command of this run was executed and has returned
Returned == pc \in {"returned", "exit", "done", "failed"} /\ executed /= <<>>

\* the handler of this run has finished
Handled == pc \in {"exit", "done", "failed"}

\* the diagnostic each action recognises
MarkerOf(action) == IF action = "present" THEN "0042-081" ELSE "0042-053"

Mentions(stderr, word) == word \in {stderr[i] : i \in DOMAIN stderr}

Given(x) == x /= None /\ x /= ""

HasFlag(a, flag, value) ==
    \E i \in 1..(Len(a) - 1) : a[i] = flag /\ a[i + 1] = value

Count(b) == IF b THEN 1 ELSE 0

\* the listing format as the specification words it
HasEq(line) == \E i \in DOMAIN line : line[i] = "="

FirstEq(line) == CHOOSE i \in DOMAIN line : line[i] = "=" /\ \A j \in 1..(i - 1) : line[j] /= "="

KeyOf(line) == strip(SubSeq(line, 1, FirstEq(line) - 1))

ValueOf(line) == strip(SubSeq(line, FirstEq(line) + 1, Len(line)))

EndsWithColon(line) == strip(line) /= <<>> /\ strip(line)[Len(strip(line))] = ":"

NameOf(line) == IF EndsWithColon(line) THEN DropLast(strip(line)) ELSE strip(line)

\* the pairs listed under the header at line h: the attribute lines up to the
\* next header, a later pair of the same key replacing an earlier one
RECURSIVE PairsFrom(_, _, _)
PairsFrom(lines, i, acc) ==
    IF i > Len(lines) \/ ~HasEq(lines[i]) THEN acc
    ELSE PairsFrom(lines, i + 1, Put(acc, KeyOf(lines[i]), ValueOf(lines[i])))

PairsUnder(lines, h) == PairsFrom(lines, h + 1, EmptyDict)

Headers(lines) == {i \in DOMAIN lines : ~HasEq(lines[i])}

\* a listing of records: it starts with a header, every header ends in a
\* colon, names its own record and is followed by an attribute line, and no
\* value holds '='
IsRecords(lines) ==
    /\ lines /= <<>> /\ 1 \in Headers(lines)
    /\ \A h \in Headers(lines) : EndsWithColon(lines[h])
    /\ \A h \in Headers(lines) : h < Len(lines) /\ HasEq(lines[h + 1])
    /\ \A h, g \in Headers(lines) : lines[h] = lines[g] => h = g
    /\ \A i \in DOMAIN lines : HasEq(lines[i]) => line_size(lines[i]) = 2

\* a show run that listed: lsnim returned 0 and the run has ended
Listed == pc = "done" /\ params.action = "show" /\ Returned /\ ret.rc = 0

ListedLines == splitlines(ret.stdout)

Catalog == results.nim_resources

(***************************************************************************)
(* C1.  Parsing a listing of several records yields a catalog in which     *)
(* every record name maps to exactly the pairs listed under its own        *)
(* header.  The code keeps one attribute dict for all records, so this     *)
(* fails as soon as there are two records.                                 *)
(***************************************************************************)
C1_EveryRecordHasItsOwnPairs ==
    (Listed /\ IsRecords(ListedLines)) =>
        /\ DOMAIN Catalog = {NameOf(ListedLines[h]) : h \in Headers(ListedLines)}
        /\ \A h \in Headers(ListedLines) :
             Catalog[NameOf(ListedLines[h])] = PairsUnder(ListedLines, h)

(***************************************************************************)
(* C2.  Every attribute line is split at its first '=' only: the key is    *)
(* the trimmed text before it, the value the trimmed whole remainder, and  *)
(* that pair is what the record of the line holds (checked on the lines of *)
(* the last record whose key is not repeated after them).  The code takes  *)
(* the piece between the first and the second '='.                         *)
(***************************************************************************)
C2_SplitAtFirstEqOnly ==
    Listed =>
        \A i \in DOMAIN ListedLines :
            HasEq(ListedLines[i]) =>
                /\ line_key(ListedLines[i]) = KeyOf(ListedLines[i])
                /\ line_value(ListedLines[i]) = ValueOf(ListedLines[i])
                /\ ( (\A j \in (i + 1)..Len(ListedLines) :
                          /\ HasEq(ListedLines[j])
                          /\ KeyOf(ListedLines[j]) /= KeyOf(ListedLines[i]))
                     => \A n \in DOMAIN Catalog :
                          /\ KeyOf(ListedLines[i]) \in DOMAIN Catalog[n]
                          /\ Catalog[n][KeyOf(ListedLines[i])] = ValueOf(ListedLines[i]) )

(***************************************************************************)
(* C10.  Every line without '=' is a record header, and the catalog's keys *)
(* are exactly the trimmed header lines with a trailing colon stripped,    *)
(* a header-like line without colon keeping all its characters.  The code  *)
(* drops the last character of every header, colon or not.                 *)
(***************************************************************************)
C10_KeysAreHeaderNames ==
    Listed =>
        DOMAIN Catalog = {NameOf(ListedLines[h]) : h \in Headers(ListedLines)}

(***************************************************************************)
(* C3.  A non-zero exit code whose stderr lacks the action's diagnostic    *)
(* marker is fatal for every action: the run ends through fail_json, which *)
(* carries the exit code unchanged, and exit_json is not reached.          *)
(***************************************************************************)
C3_UnknownFailureIsFatal ==
    (Returned /\ Handled /\ ret.rc /= 0
        /\ ~Mentions(ret.stderr, MarkerOf(params.action))) =>
        /\ pc = "failed"
        /\ output.how = "fail_json"
        /\ "rc" \in DOMAIN output.data
        /\ output.data.rc = ret.rc

C3_Witness ==
    /\ pc = "failed" /\ params.action = "present" /\ Returned
    /\ ret.rc = 2 /\ ret.stderr = <<"0042-053">>
    /\ output.how = "fail_json" /\ output.data.rc = 2

(***************************************************************************)
(* C4.  A non-zero exit code whose stderr holds the action's diagnostic    *)
(* marker is not fatal: changed stays false, the run ends through          *)
(* exit_json and not fail_json, and show reports an empty catalog and      *)
(* nim_resource_found '0'.                                                 *)
(***************************************************************************)
C4_MarkedFailureIsNotFatal ==
    (Returned /\ Handled /\ ret.rc /= 0
        /\ Mentions(ret.stderr, MarkerOf(params.action))) =>
        /\ pc /= "failed"
        /\ output.how /= "fail_json"
        /\ results.changed = FALSE
        /\ "rc" \notin DOMAIN results
        /\ (pc = "done" => output.how = "exit_json" /\ output.data.changed = FALSE)
        /\ (params.action = "show" =>
               /\ results.nim_resources = EmptyDict
               /\ results.nim_resource_found = "0")

C4_Witness ==
    /\ pc = "done" /\ params.action = "show" /\ Returned
    /\ ret.rc = 1 /\ ret.stderr = <<"0042-001", "0042-053">>
    /\ output.how = "exit_json" /\ output.data.nim_resource_found = "0"

(***************************************************************************)
(* C5.  With exit code 0 the changed flag depends on the action alone:     *)
(* false for show, true for present and absent, whatever stdout and stderr *)
(* hold.                                                                   *)
(***************************************************************************)
C5_ChangedFollowsAction ==
    (Returned /\ Handled /\ ret.rc = 0) =>
        /\ pc /= "failed"
        /\ results.changed = (params.action /= "show")
        /\ (pc = "done" => output.data.changed = (params.action /= "show"))

C5_Witness ==
    /\ pc = "done" /\ params.action = "absent" /\ Returned
    /\ ret.rc = 0 /\ Mentions(ret.stderr, "0042-053")
    /\ output.data.changed = TRUE

(***************************************************************************)
(* C6.  In check mode no action ever hands its command to run_command, and *)
(* the run ends with changed false: the check-mode test comes after the    *)
(* command is built and before run_command.                                *)
(***************************************************************************)
C6_CheckModeNeverExecutes ==
    (params.check_mode /\ pc /= "idle") =>
        /\ executed = <<>>
        /\ pc \in {"dispatch", "exit", "done"}
        /\ (Handled => cmd /= <<>> /\ results.changed = FALSE)
        /\ (pc = "done" => output.how = "exit_json" /\ output.data.changed = FALSE)

C6_Witness ==
    /\ pc = "done" /\ params.check_mode /\ params.action = "absent"
    /\ params.name = "r1" /\ argv(cmd) = <<"/usr/sbin/nim", "-o", "remove", "r1">>
    /\ executed = <<>>

(***************************************************************************)
(* C8.  An absent (remove) request without a name is rejected before any   *)
(* command line is built: no command is built from it and run_command is   *)
(* never called for it.  The code has no such test: it formats the missing *)
(* name into the command and runs it.                                      *)
(***************************************************************************)
C8_RemoveWithoutNameIsRejected ==
    (params.action = "absent" /\ ~Given(params.name) /\ pc /= "idle") =>
        /\ cmd = <<>>
        /\ executed = <<>>
        /\ pc \notin {"run", "returned"}

(***************************************************************************)
(* C9.  The show command is the base lsnim -l followed by parts that are   *)
(* composed independently: -c resources exactly when neither object_type   *)
(* nor name is given, -t <object_type> exactly when object_type is given,  *)
(* and the bare name as the final word exactly when name is given.         *)
(***************************************************************************)
C9_ShowCommandParts ==
    (params.action = "show" /\ pc \notin {"idle", "dispatch"}) =>
        LET a == argv(cmd)
            coarse == ~Given(params.object_type) /\ ~Given(params.name)
        IN  /\ SubSeq(a, 1, 2) = <<"/usr/sbin/lsnim", "-l">>
            /\ HasFlag(a, "-c", "resources") <=> coarse
            /\ (\E i \in DOMAIN a : a[i] = "-t") <=> Given(params.object_type)
            /\ Given(params.object_type) => HasFlag(a, "-t", params.object_type)
            /\ Given(params.name) => a[Len(a)] = params.name
            /\ Len(a) = 2 + 2 * Count(coarse) + 2 * Count(Given(params.object_type))
                          + Count(Given(params.name))

C9_Witness ==
    /\ params.action = "show" /\ pc = "done"
    /\ params.name = "r1" /\ params.object_type = None
    /\ argv(cmd) = <<"/usr/sbin/lsnim", "-l", "r1">>

(***************************************************************************)
(* C7.  Remove is idempotent against the simulated server: when a name has *)
(* been removed and not defined again since, a further remove of it gets   *)
(* the 0042-053 failure, is classified as not found (changed false, normal *)
(* exit, never fatal), and leaves the server as the call before it left    *)
(* it.                                                                     *)
(***************************************************************************)
RemovedBefore(j) ==
    /\ j > 1
    /\ journal[j].op = "remove" /\ journal[j].operand /= <<>>
    /\ \E i \in 1..(j - 1) :
         /\ journal[i].op = "remove" /\ journal[i].operand = journal[j].operand
         /\ \A k \in (i + 1)..(j - 1) :
              ~(journal[k].op = "define" /\ journal[k].operand = journal[j].operand
                /\ journal[k].rc = 0)

C7_SecondRemoveIsNotFound ==
    (Returned /\ RemovedBefore(Len(journal))) =>
        /\ ret.rc /= 0 /\ Mentions(ret.stderr, "0042-053")
        /\ journal[Len(journal)].after = journal[Len(journal) - 1].after
        /\ server = journal[Len(journal)].after
        /\ pc /= "failed"
        /\ (Handled => results.changed = FALSE /\ "rc" \notin DOMAIN results)
        /\ (pc = "done" => output.how = "exit_json" /\ output.data.changed = FALSE)

C7_Witness ==
    /\ pc = "done" /\ Returned /\ Len(journal) = 2
    /\ journal[1] = [op |-> "remove", operand |-> <<"r1">>, rc |-> 0, after |-> {"r2"}]
    /\ journal[2].op = "remove" /\ journal[2].operand = <<"r1">> /\ journal[2].rc /= 0
    /\ server = {"r2"}
    /\ output.how = "exit_json" /\ output.data.changed = FALSE

====
